---- MODULE Spec2Model ----
(***************************************************************************)
(* Model of the NGX tracker's snapshot store and trend-scoring engine      *)
(* (analyzer.py) together with the callers that share the history          *)
(* directory (agent.py, dashboard.py, generate_html.py).                   *)
(*                                                                         *)
(* Eight specifications share the module:                                    *)
(*   Spec       the snapshot store: save_snapshot / _prune_old_snapshots / *)
(*              load_snapshots run by processes sharing data/history       *)
(*   SpecRec    generate_recommendations applied to bounded inputs         *)
(*   SpecLabel  _score_to_label applied to bounded scores                  *)
(*   SpecScore  build_price_history + score_stock applied to the history   *)
(*              of one symbol                                              *)
(*   SpecPort   score_portfolio_stock applied to bounded inputs            *)
(*   SpecMatch  score_portfolio_stock applied to snapshots with no, one or *)
(*              several rows whose symbol starts with the token            *)
(*   SpecCycle  the agent's analysis cycle (agent.run_analysis, main)      *)
(*   SpecHtml   the page generator (generate_html.main, generate)          *)
(***************************************************************************)
EXTENDS Integers, Sequences, FiniteSets, TLC

VARIABLES
    \* ---- snapshot store (data/history) ----
    clock,      \* wall clock in seconds: datetime.now() at %Y%m%d_%H%M%S resolution
    files,      \* the directory: file name (its timestamp) -> content (id of the saved frame)
    persisted,  \* number of snapshots data/history held when the processes started
    saves,      \* number of save_snapshot calls made since then
    ticks,      \* number of clock seconds elapsed since then
    pc,         \* per process: where it is inside save_snapshot
    globbed,    \* per process: the local list `snapshots` of _prune_old_snapshots
    loaded,     \* frames returned by the last load_snapshots call
    loadedN,    \* its last_n argument (-1: no call yet)
    \* ---- generate_recommendations ----
    snapshots,  \* the list of frames passed as `snapshots`, oldest first
    current_df, \* the frame passed as `current_df`
    top_n,      \* the argument top_n
    recs,       \* the returned rows, in order
    rstate,     \* "input": arguments being built; "done": the call returned
    \* ---- _score_to_label ----
    lscore,     \* the argument of the last _score_to_label call, in hundredths
    llabel,     \* the label it returned ("": no call yet)
    \* ---- build_price_history + score_stock, one symbol ----
    hsnaps,     \* the list of frames passed as `snapshots`, oldest first
    hcloses,    \* the array `closes` score_stock derives for the symbol
    hresult,    \* the dict score_stock returns
    hstate,     \* "input": history being built; "done": score_stock returned
    \* ---- score_portfolio_stock ----
    psnaps,     \* the list of frames passed as `snapshots`, oldest first
    pcompany,   \* the argument `company`
    pcurrent,   \* Pct_Change of the argument `current_row`, in hundredths
    presult,    \* the dict score_portfolio_stock returns
    pstate,     \* "input": arguments being built; "done": the call returned
    \* ---- agent.py: main / run_analysis ----
    apc,        \* where the agent is: "start", "fetched", "saved", "loaded" (inside
                \* run_analysis), "returned", "wait", "exit", "stopped", "dead"
    adf,        \* the frame get_equities_data returned in this cycle (0: empty)
    asnaps,     \* the local list `snapshots` of run_analysis
    cycles,     \* number of run_analysis calls started
    reports,    \* number of cycles that computed gainers, losers, recommendations and report
    once,       \* args.once
    interval,   \* args.interval, in minutes
    waited,     \* minutes since the job was scheduled or last ran
    inflight,   \* number of run_analysis calls entered and not yet left
    \* ---- generate_html.py: main / generate ----
    gpc,        \* where the generator is: "start", "generate", "written", "aborted", "error"
    gdf,        \* the frame load_data returned
    gsnaps,     \* the frames of data/history, then the local list `snapshots` of main
    gsignals,   \* the dict port_signals
    gnext       \* index in port_df of the row the loop of lines 774-782 handles next

storeVars == <<clock, files, persisted, saves, ticks, pc, globbed, loaded, loadedN>>

recVars == <<snapshots, current_df, top_n, recs, rstate>>

labelVars == <<lscore, llabel>>

scoreVars == <<hsnaps, hcloses, hresult, hstate>>

portVars == <<psnaps, pcompany, pcurrent, presult, pstate>>

cycleVars == <<apc, adf, asnaps, cycles, reports, once, interval, waited, inflight>>

htmlVars == <<gpc, gdf, gsnaps, gsignals, gnext>>

otherVars == <<scoreVars, portVars, cycleVars, htmlVars>>

vars == <<storeVars, recVars, labelVars, otherVars>>

\* ---------------------------------------------------------------------------
\* Bounds and program constants
\* ---------------------------------------------------------------------------

\* retention limit: _prune_old_snapshots(keep_last=720)
keep_last == 720

\* save_snapshot calls and clock seconds explored beyond the initial directory
MaxSaves == 3
MaxTicks == 2

\* processes that import analyzer and call save_snapshot / load_snapshots
Procs == {"agent", "dashboard"}

\* directory sizes at start-up: empty, one below the limit, at the limit.
\* A directory of k files is what k save_snapshot calls in k distinct seconds
\* leave; the processes start in a later second.
InitSizes == {0, keep_last - 1, keep_last}

\* last_n arguments: generate_html.load_data (1), agent/dashboard (24),
\* generate_html.main (168), and the values 0 and 1000 the specification names
LoadArgs == {0, 1, 24, 168, 1000}

\* ---------------------------------------------------------------------------
\* Helpers
\* ---------------------------------------------------------------------------

Min(a, b) == IF a < b THEN a ELSE b
Max(a, b) == IF a > b THEN a ELSE b

\* sorted(HISTORY_DIR.glob("snapshot_*.json")): the names sort lexicographically,
\* which for the fixed-width timestamp is chronological order
SortedNames(dir) ==
    SelectSeq([i \in 1..clock |-> i], LAMBDA t : t \in DOMAIN dir)

\* Python's lst[-n:] for n >= 0: -0 is 0, so lst[-0:] is the whole list
SliceLast(lst, n) ==
    IF n = 0 THEN lst
    ELSE SubSeq(lst, Max(1, Len(lst) - n + 1), Len(lst))

\* pd.read_json(path) succeeds on what df.to_json wrote in full (a frame id,
\* positive); on a file a failed write left behind (content 0) it raises
readable(content) == content > 0

\* load_snapshots(last_n): the frames of the last_n newest files, oldest first;
\* a file that cannot be read is logged and skipped (lines 43-47)
load_snapshots(dir, last_n) ==
    LET paths == SliceLast(SortedNames(dir), last_n)
        read == SelectSeq(paths, LAMBDA t : readable(dir[t]))
    IN  [i \in 1..Len(read) |-> dir[read[i]]]

\* df.to_json(filepath): creates the file, or truncates and rewrites an existing one
to_json(dir, name, frame) ==
    [t \in DOMAIN dir \cup {name} |-> IF t = name THEN frame ELSE dir[t]]

\* Path.unlink()
unlink(dir, name) == [t \in DOMAIN dir \ {name} |-> dir[t]]

\* ---------------------------------------------------------------------------
\* Snapshot store: actions
\* ---------------------------------------------------------------------------

InitStore ==
    \E k \in InitSizes :
        /\ persisted = k
        /\ files = [t \in 1..k |-> t]
        /\ clock = k + 1
        /\ saves = 0
        /\ ticks = 0
        /\ pc = [p \in Procs |-> "idle"]
        /\ globbed = [p \in Procs |-> <<>>]
        /\ loaded = <<>>
        /\ loadedN = -1

\* one second passes
Tick ==
    /\ ticks < MaxTicks
    /\ clock' = clock + 1
    /\ ticks' = ticks + 1
    /\ UNCHANGED <<files, persisted, saves, pc, globbed, loaded, loadedN, recVars, labelVars, otherVars>>

\* save_snapshot, lines 24-26: name the file after the current second and write it
save_snapshot_write(p) ==
    /\ pc[p] = "idle"
    /\ saves < MaxSaves
    /\ saves' = saves + 1
    /\ files' = to_json(files, clock, persisted + saves + 1)
    /\ pc' = [pc EXCEPT ![p] = "prune"]
    /\ UNCHANGED <<clock, persisted, ticks, globbed, loaded, loadedN, recVars, labelVars, otherVars>>

\* _prune_old_snapshots, line 33: list the directory
prune_glob(p) ==
    /\ pc[p] = "prune"
    /\ globbed' = [globbed EXCEPT ![p] = SortedNames(files)]
    /\ pc' = [pc EXCEPT ![p] = "unlink"]
    /\ UNCHANGED <<clock, files, persisted, saves, ticks, loaded, loadedN, recVars, labelVars, otherVars>>

\* _prune_old_snapshots, lines 34-35: one iteration of the loop, the file exists
prune_unlink(p) ==
    /\ pc[p] = "unlink"
    /\ Len(globbed[p]) > keep_last
    /\ Head(globbed[p]) \in DOMAIN files
    /\ files' = unlink(files, Head(globbed[p]))
    /\ globbed' = [globbed EXCEPT ![p] = Tail(globbed[p])]
    /\ UNCHANGED <<clock, persisted, saves, ticks, pc, loaded, loadedN, recVars, labelVars, otherVars>>

\* _prune_old_snapshots, line 35: the file is gone (another process unlinked it);
\* Path.unlink() raises FileNotFoundError, which leaves save_snapshot
prune_unlink_missing(p) ==
    /\ pc[p] = "unlink"
    /\ Len(globbed[p]) > keep_last
    /\ Head(globbed[p]) \notin DOMAIN files
    /\ pc' = [pc EXCEPT ![p] = "failed"]
    /\ globbed' = [globbed EXCEPT ![p] = <<>>]
    /\ UNCHANGED <<clock, files, persisted, saves, ticks, loaded, loadedN, recVars, labelVars, otherVars>>

\* _prune_old_snapshots, line 34: the loop ends and save_snapshot returns
prune_return(p) ==
    /\ pc[p] = "unlink"
    /\ Len(globbed[p]) <= keep_last
    /\ pc' = [pc EXCEPT ![p] = "idle"]
    /\ globbed' = [globbed EXCEPT ![p] = <<>>]
    /\ UNCHANGED <<clock, files, persisted, saves, ticks, loaded, loadedN, recVars, labelVars, otherVars>>

\* a process calls load_snapshots(last_n=n)
do_load_snapshots(p, n) ==
    /\ pc[p] = "idle"
    /\ loaded' = load_snapshots(files, n)
    /\ loadedN' = n
    /\ UNCHANGED <<clock, files, persisted, saves, ticks, pc, globbed, recVars, labelVars, otherVars>>

NextStore ==
    \/ Tick
    \/ \E p \in Procs : save_snapshot_write(p)
    \/ \E p \in Procs : prune_glob(p)
    \/ \E p \in Procs : prune_unlink(p)
    \/ \E p \in Procs : prune_unlink_missing(p)
    \/ \E p \in Procs : prune_return(p)
    \/ \E p \in Procs, n \in LoadArgs : do_load_snapshots(p, n)

\* the store as the recommendation engine's specification leaves it: untouched
StoreIdle ==
    /\ persisted = 0
    /\ files = <<>>
    /\ clock = 0
    /\ saves = 0
    /\ ticks = 0
    /\ pc = [p \in Procs |-> "idle"]
    /\ globbed = [p \in Procs |-> <<>>]
    /\ loaded = <<>>
    /\ loadedN = -1

\* ---------------------------------------------------------------------------
\* Snapshot store: claims
\* ---------------------------------------------------------------------------

AllIdle == \A p \in Procs : pc[p] = "idle"

\* C1: the store holds at most 720 snapshots in every reachable state, the state
\* between save_snapshot's write and its prune included, and no load_snapshots
\* call ever sees more than 720.
C1_AtMostRetentionLimit ==
    /\ Cardinality(DOMAIN files) <= keep_last
    /\ Len(loaded) <= keep_last

\* C2: once more than 720 snapshots have been appended (and no append is in
\* progress), recent(1000) returns exactly the 720 most recently appended frames,
\* oldest first.
C2_RecentAfterOverflow ==
    (AllIdle /\ persisted + saves > keep_last) =>
        load_snapshots(files, 1000)
            = [i \in 1..keep_last |-> persisted + saves - keep_last + i]

\* the last min(n, size) stored frames, oldest first
LastMin(dir, n) ==
    LET names == SortedNames(dir)
        k == Min(n, Len(names))
    IN  [i \in 1..k |-> dir[names[Len(names) - k + i]]]

\* C3: every load_snapshots(last_n=n) call, n >= 0, returns exactly the last
\* min(n, size) stored snapshots, oldest first (an empty sequence on an empty store).
C3_RecentReturnsLastMin ==
    [][<<loaded, loadedN>>' # <<loaded, loadedN>>
            => loaded' = LastMin(files, loadedN')]_vars

\* C4: every append adds one new entry and leaves every stored entry as it was,
\* also within one clock second; entries leave the store oldest first only.
C4_AppendIsWriteOnce ==
    [][/\ saves' = saves + 1 =>
            /\ Cardinality(DOMAIN files') = Cardinality(DOMAIN files) + 1
            /\ \A t \in DOMAIN files : t \in DOMAIN files' /\ files'[t] = files[t]
       /\ \A t \in DOMAIN files \ DOMAIN files' :
            \A u \in DOMAIN files : t <= u]_vars

\* ---------------------------------------------------------------------------
\* Quotes, frames and exact arithmetic
\* ---------------------------------------------------------------------------

\* listed symbols (column Company)
Companies == {"AFRIPRUD", "CUTIX"}

\* one row of a frame: Close in naira, Volume in shares, Pct_Change in hundredths
\* of a percent (scraper.py rounds it to 2 decimals)
Quote(close, volume, pct) == [Close |-> close, Volume |-> volume, Pct_Change |-> pct]

\* rows of the stored snapshots, and rows of the current frame
HistoryQuotes == {Quote(10, 1, 200), Quote(13, 3, -100)}
CurrentQuotes ==
    {Quote(10, 1, 200), Quote(13, 3, 50), Quote(13, 0, 50), Quote(13, 3, -100)}

\* a frame maps each company it lists to its row; the frame with no rows is
\* pd.DataFrame(), which has no columns either (so is a snapshot read back from "[]")
Frames(quotes) == UNION {[D -> quotes] : D \in SUBSET Companies}

\* number of frames in `snapshots`, and the largest top_n
MaxSnaps == 2
MaxTopN == 2

\* rationals <<numerator, denominator>>, denominator > 0: the floats of the code,
\* taken as exact
RECURSIVE Gcd(_, _)
Gcd(a, b) == IF b = 0 THEN a ELSE Gcd(b, a % b)

Abs(x) == IF x < 0 THEN -x ELSE x

Rat(n, d) ==
    LET g == Gcd(Abs(n), Abs(d))
    IN  IF d < 0 THEN <<(-n) \div g, (-d) \div g>> ELSE <<n \div g, d \div g>>
RAdd(a, b) == Rat(a[1] * b[2] + b[1] * a[2], a[2] * b[2])
RSub(a, b) == Rat(a[1] * b[2] - b[1] * a[2], a[2] * b[2])
RMul(a, b) == Rat(a[1] * b[1], a[2] * b[2])
RDiv(a, b) == Rat(a[1] * b[2], a[2] * b[1])
RSign(a) == IF a[1] > 0 THEN 1 ELSE IF a[1] < 0 THEN -1 ELSE 0

\* round(x, 2), as an integer number of hundredths (ties to even)
round2(a) ==
    LET n == a[1] * 100
        q == n \div a[2]
        r == n - q * a[2]
    IN  IF 2 * r < a[2] THEN q
        ELSE IF 2 * r > a[2] THEN q + 1
        ELSE IF q % 2 = 0 THEN q ELSE q + 1

RECURSIVE SeqSum(_)
SeqSum(seq) == IF seq = <<>> THEN 0 ELSE Head(seq) + SeqSum(Tail(seq))

\* np.log1p(volume) in units of 1e-4, for the volumes of CurrentQuotes
log1p(volume) ==
    CASE volume = 0 -> 0
      [] volume = 1 -> 6931
      [] volume = 3 -> 13863

\* ---------------------------------------------------------------------------
\* build_price_history and score_stock
\* ---------------------------------------------------------------------------

\* a history that carries a company's last row into the frames that do not list it
build_price_history_ffill(snaps) ==
    LET frames == SelectSeq(snaps, LAMBDA snap : DOMAIN snap # {})
        Listed(c, i) == {j \in 1..i : c \in DOMAIN frames[j]}
        Last(c, i) == CHOOSE j \in Listed(c, i) : \A k \in Listed(c, i) : k <= j
    IN  [c \in UNION {DOMAIN frames[i] : i \in 1..Len(frames)} |->
            [i \in 1..Len(frames) |->
                IF Listed(c, i) # {} THEN <<frames[Last(c, i)][c]>> ELSE <<>>]]

\* build_price_history: frames without the columns are skipped; the result maps
\* each company to its row, one cell per kept frame, <<>> (NaN) where the frame
\* does not list the company
build_price_history(snaps) ==
    LET frames == SelectSeq(snaps, LAMBDA snap : DOMAIN snap # {})
    IN  [c \in UNION {DOMAIN frames[i] : i \in 1..Len(frames)} |->
            [i \in 1..Len(frames) |->
                IF c \in DOMAIN frames[i] THEN <<frames[i][c]>> ELSE <<>>]]

\* row[cols].dropna().values
dropna(row) ==
    LET kept == SelectSeq(row, LAMBDA cell : cell # <<>>)
    IN  [i \in 1..Len(kept) |-> kept[i][1]]

\* lines 101-103: the arrays closes, vols and pcts of a row
closes_of(row) == [i \in 1..Len(dropna(row)) |-> dropna(row)[i].Close]
vols_of(row) == [i \in 1..Len(dropna(row)) |-> dropna(row)[i].Volume]
pcts_of(row) == [i \in 1..Len(dropna(row)) |-> dropna(row)[i].Pct_Change]

\* a guard that lets a single close through
too_few_closes_below_one(closes) == Len(closes) < 1

\* line 108
too_few_closes(closes) == Len(closes) < 2

\* the net change taken relative to the last close
net_change_over_last(closes) ==
    IF closes[Len(closes)] # 0
    THEN Rat((closes[Len(closes)] - closes[1]) * 100, closes[Len(closes)])
    ELSE Rat(0, 1)

\* signal 1, lines 112-114: net change first to last close, in percent
net_change_of(closes) ==
    IF closes[1] # 0
    THEN Rat((closes[Len(closes)] - closes[1]) * 100, closes[1])
    ELSE Rat(0, 1)

momentum_score(closes) == RMul(net_change_of(closes), Rat(4, 10))

\* signal 2, lines 117-121
has_consistency(pcts) == Len(pcts) > 0

consistency_of(pcts) ==
    Rat(Cardinality({i \in 1..Len(pcts) : pcts[i] > 0}), Len(pcts))

consistency_score(pcts) ==
    IF has_consistency(pcts) THEN RMul(consistency_of(pcts), Rat(20, 1)) ELSE Rat(0, 1)

\* signal 3, lines 124-131
has_volume_trend(vols) == Len(vols) >= 2 /\ vols[1] # 0

vol_trend_of(vols) == Rat((vols[Len(vols)] - vols[1]) * 100, vols[1])

volume_score(closes, vols) ==
    IF ~has_volume_trend(vols) THEN Rat(0, 1)
    ELSE IF RSign(net_change_of(closes)) > 0 /\ RSign(vol_trend_of(vols)) > 0
         THEN Rat(10, 1)
    ELSE IF RSign(net_change_of(closes)) < 0 /\ RSign(vol_trend_of(vols)) > 0
         THEN Rat(-5, 1)
    ELSE Rat(0, 1)

\* signal 4, lines 134-140
recent_avg_of(closes) ==
    Rat(SeqSum(SubSeq(closes, Len(closes) - 2, Len(closes))), 3)

earlier_avg_of(closes) ==
    Rat(SeqSum(SubSeq(closes, 1, Len(closes) - 3)), Len(closes) - 3)

has_recent_momentum(closes) ==
    Len(closes) >= 4 /\ earlier_avg_of(closes)[1] # 0

recent_momentum_of(closes) ==
    RMul(RDiv(RSub(recent_avg_of(closes), earlier_avg_of(closes)),
              earlier_avg_of(closes)),
         Rat(100, 1))

recent_momentum_score(closes) ==
    IF has_recent_momentum(closes)
    THEN RMul(recent_momentum_of(closes), Rat(3, 10))
    ELSE Rat(0, 1)

\* a streak that counts a flat period as a decline
has_decline_streak_or_flat(pcts) ==
    Len(pcts) >= 3 /\ \A i \in (Len(pcts) - 2)..Len(pcts) : pcts[i] <= 0

\* signal 5, lines 143-145
has_decline_streak(pcts) ==
    Len(pcts) >= 3 /\ \A i \in (Len(pcts) - 2)..Len(pcts) : pcts[i] < 0

\* a penalty already applied to a streak of two period changes
decline_score_two_periods(pcts) ==
    IF Len(pcts) >= 2 /\ pcts[Len(pcts)] < 0 /\ pcts[Len(pcts) - 1] < 0
    THEN Rat(-15, 1)
    ELSE Rat(0, 1)

decline_score(pcts) == IF has_decline_streak(pcts) THEN Rat(-15, 1) ELSE Rat(0, 1)

\* the dict `signals`: percentages and total in hundredths
signals_of(closes, vols, pcts, score) ==
    LET keys == {"momentum_%", "total_score"}
                \cup (IF has_consistency(pcts) THEN {"consistency"} ELSE {})
                \cup (IF has_volume_trend(vols) THEN {"volume_trend_%"} ELSE {})
                \cup (IF has_recent_momentum(closes) THEN {"recent_momentum_%"} ELSE {})
                \cup (IF has_decline_streak(pcts) THEN {"consecutive_declines"} ELSE {})
    IN  [k \in keys |->
            CASE k = "momentum_%" -> round2(net_change_of(closes))
              [] k = "consistency" -> round2(consistency_of(pcts))
              [] k = "volume_trend_%" -> round2(vol_trend_of(vols))
              [] k = "recent_momentum_%" -> round2(recent_momentum_of(closes))
              [] k = "consecutive_declines" -> 3
              [] k = "total_score" -> round2(score)]

\* score_stock(row, n_snapshots): score in hundredths, and the signals
score_stock(row) ==
    LET closes == closes_of(row)
        vols == vols_of(row)
        pcts == pcts_of(row)
        score == RAdd(RAdd(RAdd(RAdd(momentum_score(closes),
                                     consistency_score(pcts)),
                                volume_score(closes, vols)),
                           recent_momentum_score(closes)),
                      decline_score(pcts))
    IN  IF too_few_closes(closes)
        THEN [score |-> 0, signals |-> <<>>]
        ELSE [score |-> round2(score),
              signals |-> signals_of(closes, vols, pcts, score)]

\* ---------------------------------------------------------------------------
\* generate_recommendations
\* ---------------------------------------------------------------------------

\* the first threshold taken as exclusive
score_to_label_exclusive(score) ==
    IF score > 3000 THEN "STRONG BUY"
    ELSE IF score >= 1500 THEN "BUY"
    ELSE IF score >= 500 THEN "WATCH"
    ELSE "HOLD"

\* _score_to_label, on a score in hundredths
score_to_label(score) ==
    IF score >= 3000 THEN "STRONG BUY"
    ELSE IF score >= 1500 THEN "BUY"
    ELSE IF score >= 500 THEN "WATCH"
    ELSE "HOLD"

SingleSessionLabel == "WATCH / BUY (single-session)"

\* the orders sort_values("Score", ascending=False) can leave the keys in: the
\* sort is not stable, so rows of equal score come in any order
sort_values_desc(keys, score) ==
    {o \in [1..Cardinality(keys) -> keys] :
        /\ \A i, j \in DOMAIN o : i # j => o[i] # o[j]
        /\ \A i, j \in DOMAIN o : i < j => score[o[i]] >= score[o[j]]}

\* a table that is not cut to n rows
head_missing(rows, n) == rows

\* .head(n)
head(rows, n) == SubSeq(rows, 1, Min(n, Len(rows)))

\* the filter without its volume condition
candidates_any_volume(df) == {c \in DOMAIN df : df[c].Pct_Change > 0}

\* line 190: the rows of df the fallback considers
single_session_candidates(df) ==
    {c \in DOMAIN df : df[c].Pct_Change > 0 /\ df[c].Volume > 0}

\* _single_session_recommendations: every table the call can return.
\* Score = Pct_Change * log1p(Volume), in units of 1e-6
single_session_recommendations(df, n) ==
    LET candidates == single_session_candidates(df)
        Score == [c \in candidates |-> df[c].Pct_Change * log1p(df[c].Volume)]
    IN  {[i \in 1..Len(o) |->
            [Company |-> o[i],
             Close |-> <<df[o[i]].Close>>,
             Pct_Change |-> <<df[o[i]].Pct_Change>>,
             Volume |-> <<df[o[i]].Volume>>,
             Score |-> Score[o[i]],
             Recommendation |-> SingleSessionLabel]] :
         o \in {head(s, n) : s \in sort_values_desc(candidates, Score)}}

\* a filter that keeps a score of zero
is_scored_or_zero(result) == result.score >= 0

\* line 168: a scored company is kept
is_scored(result) == result.score > 0

\* a call that never falls back once history exists
never_falls_back(scored) == FALSE

\* line 175: no company was kept
no_scored(scored) == scored = {}

\* line 157: too little history
insufficient_history(snaps) == Len(snaps) < 2

\* lines 181-182: merge(price_cols, on="Company", how="left") for one row; the
\* columns are NaN (<<>>) when df does not list the company
merge_left(company, df, column) ==
    IF company \in DOMAIN df THEN <<df[company][column]>> ELSE <<>>

\* lines 165-185: the tables the multi-signal path can return
multi_signal_recommendations(df, history, n) ==
    LET result == [c \in DOMAIN history |-> score_stock(history[c])]
        scored == {c \in DOMAIN history : is_scored(result[c])}
        Score == [c \in scored |-> result[c].score]
    IN  IF no_scored(scored)
        THEN single_session_recommendations(df, n)
        ELSE {[i \in 1..Len(o) |->
                [Company |-> o[i],
                 Score |-> Score[o[i]],
                 signals |-> result[o[i]].signals,
                 Close |-> merge_left(o[i], df, "Close"),
                 Pct_Change |-> merge_left(o[i], df, "Pct_Change"),
                 Volume |-> merge_left(o[i], df, "Volume"),
                 Recommendation |-> score_to_label(Score[o[i]])]] :
              o \in {head(s, n) : s \in sort_values_desc(scored, Score)}}

\* generate_recommendations(current_df, snapshots, top_n): every table the call
\* can return
generate_recommendations(df, snaps, n) ==
    IF insufficient_history(snaps)
    THEN single_session_recommendations(df, n)
    ELSE LET history == build_price_history(snaps)
         IN  IF DOMAIN history = {}
             THEN single_session_recommendations(df, n)
             ELSE multi_signal_recommendations(df, history, n)

\* ---------------------------------------------------------------------------
\* generate_recommendations: actions
\* ---------------------------------------------------------------------------

InitRec ==
    /\ snapshots = <<>>
    /\ current_df = <<>>
    /\ top_n = 0
    /\ recs = <<>>
    /\ rstate = "input"

\* one more stored snapshot is part of the history handed to the call
add_snapshot ==
    /\ rstate = "input"
    /\ Len(snapshots) < MaxSnaps
    /\ \E snap \in Frames(HistoryQuotes) : snapshots' = Append(snapshots, snap)
    /\ UNCHANGED <<current_df, top_n, recs, rstate, storeVars, labelVars, otherVars>>

\* generate_recommendations(df, snapshots, top_n=n) is called and returns; every
\* caller passes a frame with rows (agent.py:52, dashboard.py:101, generate_html.py:838)
recommend ==
    /\ rstate = "input"
    /\ \E df \in Frames(CurrentQuotes) \ {<<>>}, n \in 0..MaxTopN :
        /\ current_df' = df
        /\ top_n' = n
        /\ recs' \in generate_recommendations(df, snapshots, n)
    /\ rstate' = "done"
    /\ UNCHANGED <<snapshots, storeVars, labelVars, otherVars>>

NextRec == add_snapshot \/ recommend

\* ---------------------------------------------------------------------------
\* _score_to_label: actions
\* ---------------------------------------------------------------------------

\* scores are rounded to 2 decimals (analyzer.py:148): every score in hundredths
\* from ScoreMargin below 0 to ScoreMargin above the highest threshold
ScoreMargin == 100
LabelScores == (0 - ScoreMargin)..(3000 + ScoreMargin)

InitLabel ==
    /\ lscore = 0
    /\ llabel = ""

\* _score_to_label(score) is called and returns
label_score ==
    /\ \E score \in LabelScores :
        /\ lscore' = score
        /\ llabel' = score_to_label(score)
    /\ UNCHANGED <<storeVars, recVars, otherVars>>

NextLabel == label_score

\* ---------------------------------------------------------------------------
\* build_price_history + score_stock on the history of one symbol: actions
\* ---------------------------------------------------------------------------

\* the symbol whose row is scored, and the number of frames in its history
Tracked == "AFRIPRUD"
MaxHist == 4

\* rows of the tracked symbol: a zero close and volume (scraper.parse_number
\* returns 0.0 for an unparsable cell), rising and falling closes, positive,
\* zero and negative period changes
ScoreQuotes ==
    {Quote(0, 0, 0), Quote(10, 1, 200), Quote(13, 3, -100), Quote(12, 3, -50)}

\* a stored frame: without rows, listing another symbol only, or listing the
\* tracked symbol
ScoreFrames ==
    {<<>>} \cup {[c \in {"CUTIX"} |-> Quote(10, 1, 200)]}
           \cup {[c \in {Tracked} |-> q] : q \in ScoreQuotes}

InitScore ==
    /\ hsnaps = <<>>
    /\ hcloses = <<>>
    /\ hresult = <<>>
    /\ hstate = "input"

\* one more stored snapshot is part of the history
add_history ==
    /\ hstate = "input"
    /\ Len(hsnaps) < MaxHist
    /\ \E snap \in ScoreFrames : hsnaps' = Append(hsnaps, snap)
    /\ UNCHANGED <<hcloses, hresult, hstate, storeVars, recVars, labelVars, portVars, cycleVars, htmlVars>>

\* lines 161-167: the history is built and the tracked symbol's row is scored
\* (history.iterrows() yields a row for every symbol some frame lists)
score_row ==
    /\ hstate = "input"
    /\ Tracked \in DOMAIN build_price_history(hsnaps)
    /\ hcloses' = closes_of(build_price_history(hsnaps)[Tracked])
    /\ hresult' = score_stock(build_price_history(hsnaps)[Tracked])
    /\ hstate' = "done"
    /\ UNCHANGED <<hsnaps, storeVars, recVars, labelVars, portVars, cycleVars, htmlVars>>

NextScore == add_history \/ score_row

\* ---------------------------------------------------------------------------
\* score_portfolio_stock
\* ---------------------------------------------------------------------------

RLt(a, b) == a[1] * b[2] < b[1] * a[2]
RLe(a, b) == a[1] * b[2] <= b[1] * a[2]

\* strings are sequences of characters
UpperChar(ch) ==
    CASE ch = "a" -> "A"
      [] ch = "b" -> "B"
      [] ch = "u" -> "U"
      [] OTHER -> ch

\* str.upper()
upper(str) == [i \in 1..Len(str) |-> UpperChar(str[i])]

\* str.split(" ")[0]: the characters before the first space
first_token(str) ==
    LET spaces == {i \in 1..Len(str) : str[i] = " "}
    IN  IF spaces = {} THEN str
        ELSE SubSeq(str, 1, (CHOOSE i \in spaces : \A j \in spaces : i <= j) - 1)

\* str.startswith(prefix)
startswith(str, prefix) ==
    Len(prefix) <= Len(str) /\ \A i \in 1..Len(prefix) : str[i] = prefix[i]

\* line 225: company.upper().split(" ")[0]
match_token(company) == first_token(upper(company))

\* lines 225-226: the rows of snap the mask selects, in table order
match_rows(snap, token) ==
    SelectSeq(snap, LAMBDA r : startswith(upper(r.Company), token))

\* lines 224-227: `match` of every snapshot where it is not empty
snapshot_matches(snaps, token) ==
    SelectSeq([i \in 1..Len(snaps) |-> match_rows(snaps[i], token)],
              LAMBDA match : match # <<>>)

\* lines 228-229: match.iloc[0] of each
first_rows(matches) == [k \in 1..Len(matches) |-> matches[k][1]]

\* lines 223-229: the first matching row of every snapshot that has one
matched_rows(snaps, company) ==
    first_rows(snapshot_matches(snaps, match_token(company)))

\* lst[-min(n, len(lst)):]
week_window == 168
three_day_window == 72
last_window(lst, n) == SubSeq(lst, Len(lst) - Min(n, Len(lst)) + 1, Len(lst))

\* lines 240-241: mean of the last 3 period changes (all if fewer), in percent
port_recent_avg(pcts) ==
    LET recent_pcts == IF Len(pcts) >= 3 THEN SubSeq(pcts, Len(pcts) - 2, Len(pcts))
                       ELSE pcts
    IN  Rat(SeqSum(recent_pcts), 100 * Len(recent_pcts))

\* a count of all declines, the run not broken by a rise
count_all_declines(pcts) == Cardinality({i \in 1..Len(pcts) : pcts[i] < 0})

\* lines 243-248: the loop over reversed(pcts)
RECURSIVE count_consec_down(_)
count_consec_down(pcts) ==
    IF pcts = <<>> THEN 0
    ELSE IF pcts[Len(pcts)] < 0
         THEN 1 + count_consec_down(SubSeq(pcts, 1, Len(pcts) - 1))
    ELSE 0

\* a table whose third row comes after the fourth
classify_watch_before_streak(net_change, recent_avg, consec_down) ==
    IF RLe(net_change, Rat(-10, 1)) /\ consec_down >= 5 THEN "SELL"
    ELSE IF RLe(net_change, Rat(-5, 1)) /\ RLt(recent_avg, Rat(-1, 1))
         THEN "CONSIDER SELLING"
    ELSE IF RLt(net_change, Rat(-2, 1)) /\ RLt(recent_avg, Rat(0, 1))
         THEN "WATCH CLOSELY"
    ELSE IF consec_down >= 5 THEN "CONSIDER SELLING"
    ELSE IF RLt(Rat(5, 1), net_change) /\ RLt(Rat(0, 1), recent_avg) THEN "KEEP"
    ELSE "HOLD"

\* a table whose streak row applies to a falling price only
classify_streak_needs_loss(net_change, recent_avg, consec_down) ==
    IF RLe(net_change, Rat(-10, 1)) /\ consec_down >= 5 THEN "SELL"
    ELSE IF RLe(net_change, Rat(-5, 1)) /\ RLt(recent_avg, Rat(-1, 1))
         THEN "CONSIDER SELLING"
    ELSE IF consec_down >= 5 /\ RLt(net_change, Rat(0, 1)) THEN "CONSIDER SELLING"
    ELSE IF RLt(net_change, Rat(-2, 1)) /\ RLt(recent_avg, Rat(0, 1))
         THEN "WATCH CLOSELY"
    ELSE IF RLt(Rat(5, 1), net_change) /\ RLt(Rat(0, 1), recent_avg) THEN "KEEP"
    ELSE "HOLD"

\* lines 256-276: the signal
classify(net_change, recent_avg, consec_down) ==
    IF RLe(net_change, Rat(-10, 1)) /\ consec_down >= 5 THEN "SELL"
    ELSE IF RLe(net_change, Rat(-5, 1)) /\ RLt(recent_avg, Rat(-1, 1))
         THEN "CONSIDER SELLING"
    ELSE IF consec_down >= 5 THEN "CONSIDER SELLING"
    ELSE IF RLt(net_change, Rat(-2, 1)) /\ RLt(recent_avg, Rat(0, 1))
         THEN "WATCH CLOSELY"
    ELSE IF RLt(Rat(5, 1), net_change) /\ RLt(Rat(0, 1), recent_avg) THEN "KEEP"
    ELSE IF RLt(Rat(0, 1), net_change) THEN "HOLD"
    ELSE "HOLD"

\* lines 256-276: the reason, its figures left as placeholders
reason_of(net_change, recent_avg, consec_down) ==
    IF RLe(net_change, Rat(-10, 1)) /\ consec_down >= 5
    THEN "Down {}% over {} sessions with {} consecutive declines"
    ELSE IF RLe(net_change, Rat(-5, 1)) /\ RLt(recent_avg, Rat(-1, 1))
         THEN "Down {}% overall; recent avg {}%/session"
    ELSE IF consec_down >= 5
         THEN "{} consecutive declining sessions - momentum is bearish"
    ELSE IF RLt(net_change, Rat(-2, 1)) /\ RLt(recent_avg, Rat(0, 1))
         THEN "Down {}% with negative recent trend"
    ELSE IF RLt(Rat(5, 1), net_change) /\ RLt(Rat(0, 1), recent_avg)
         THEN "Up {}% over {} sessions - strong trend"
    ELSE IF RLt(Rat(0, 1), net_change)
         THEN "Slight gain of {}% - stable, continue monitoring"
    ELSE "Mixed signals over {} sessions - no clear direction"

InsufficientHistory == "Insufficient history - check back tomorrow"
NotEnoughData == "Not enough historical data yet"

\* a threshold of 3 percent taken as inclusive
single_signal_inclusive(pct) == IF pct <= -300 THEN "WATCH CLOSELY" ELSE "HOLD"

\* line 217, pct in hundredths of a percent
single_signal(pct) == IF pct < -300 THEN "WATCH CLOSELY" ELSE "HOLD"

\* lines 215-221: fewer than 2 snapshots
single_snapshot_signal(pct) ==
    [signal |-> single_signal(pct), reason |-> InsufficientHistory,
     net_change_pct |-> pct, recent_avg_pct |-> pct,
     consec_down |-> IF pct < 0 THEN 1 ELSE 0, sessions |-> 1,
     week_change_pct |-> pct, three_day_change_pct |-> pct]

\* a result that counts the observations it found
not_enough_data_counted(closes) ==
    [signal |-> "HOLD", reason |-> NotEnoughData,
     net_change_pct |-> 0, recent_avg_pct |-> 0,
     consec_down |-> 0, sessions |-> Len(closes),
     week_change_pct |-> 0, three_day_change_pct |-> 0]

\* lines 231-235: fewer than 2 matched observations
not_enough_data(closes) ==
    [signal |-> "HOLD", reason |-> NotEnoughData,
     net_change_pct |-> 0, recent_avg_pct |-> 0,
     consec_down |-> 0, sessions |-> 0,
     week_change_pct |-> 0, three_day_change_pct |-> 0]

\* lines 256-287: the result for >= 2 matched observations; percentages are
\* returned in hundredths
session_signal(closes, net_change, recent_avg, consec_down) ==
    [signal |-> classify(net_change, recent_avg, consec_down),
     reason |-> reason_of(net_change, recent_avg, consec_down),
     net_change_pct |-> round2(net_change),
     recent_avg_pct |-> round2(recent_avg),
     consec_down |-> consec_down,
     sessions |-> Len(closes),
     week_change_pct |->
         round2(net_change_of(last_window(closes, week_window))),
     three_day_change_pct |->
         round2(net_change_of(last_window(closes, three_day_window)))]

\* lines 231-254: the statistics of the lists closes and pcts
history_signal(closes, pcts) ==
    IF Len(closes) < 2 THEN not_enough_data(closes)
    ELSE session_signal(closes, net_change_of(closes), port_recent_avg(pcts),
                        count_consec_down(pcts))

\* lines 228-229: closes and pcts of the matched rows
rows_signal(rows) ==
    history_signal([i \in 1..Len(rows) |-> rows[i].Close],
                   [i \in 1..Len(rows) |-> rows[i].Pct_Change])

\* score_portfolio_stock(company, current_row, snapshots); pct is
\* current_row["Pct_Change"]
score_portfolio_stock(company, pct, snaps) ==
    IF Len(snaps) < 2 THEN single_snapshot_signal(pct)
    ELSE rows_signal(matched_rows(snaps, company))

\* ---------------------------------------------------------------------------
\* score_portfolio_stock: actions
\* ---------------------------------------------------------------------------

\* number of frames in `snapshots`
MaxPortSnaps == 6

\* the symbol of the held instrument, and a symbol that is not held
OtherSymbol == <<"N", "B">>

\* a row of a stored frame
PortRow(company, close, pct) ==
    [Company |-> company, Close |-> close, Pct_Change |-> pct]

\* rows of the held instrument: closes of 100, 88, 95 and 106 naira, period
\* changes of -1, -2 and +1 percent
PortQuotes ==
    {PortRow(<<"U", "B", "A">>, 100, -100), PortRow(<<"U", "B", "A">>, 88, -100),
     PortRow(<<"U", "B", "A">>, 95, -200), PortRow(<<"U", "B", "A">>, 106, 100)}

\* a stored frame has rows (agent.py:52, dashboard.py:101 and generate_html.py:87
\* save no frame without rows): it lists the held instrument or another symbol
PortFrames ==
    {<<PortRow(OtherSymbol, 50, 0)>>} \cup {<<r>> : r \in PortQuotes}

\* the calls made: `company` as generate_html passes it (row["Company"]), with
\* and without an annotation after the symbol; Pct_Change of `current_row`
\* around the 3 percent threshold, and a gain
PortCalls ==
    {<<<<"U", "B", "A">>, -301>>, <<<<"U", "b", "a", " ", "N">>, -300>>,
     <<<<"U", "B", "A">>, 50>>}

InitPort ==
    /\ psnaps = <<>>
    /\ pcompany = <<>>
    /\ pcurrent = 0
    /\ presult = <<>>
    /\ pstate = "input"

\* one more stored snapshot is part of the history handed to the call
add_port_snapshot ==
    /\ pstate = "input"
    /\ Len(psnaps) < MaxPortSnaps
    /\ \E snap \in PortFrames : psnaps' = Append(psnaps, snap)
    /\ UNCHANGED <<pcompany, pcurrent, presult, pstate,
                   storeVars, recVars, labelVars, scoreVars, cycleVars, htmlVars>>

\* score_portfolio_stock(company, current_row, snapshots) is called and returns
evaluate ==
    /\ pstate = "input"
    /\ \E call \in PortCalls :
        /\ pcompany' = call[1]
        /\ pcurrent' = call[2]
        /\ presult' = score_portfolio_stock(call[1], call[2], psnaps)
    /\ pstate' = "done"
    /\ UNCHANGED <<psnaps, storeVars, recVars, labelVars, scoreVars, cycleVars, htmlVars>>

NextPort == add_port_snapshot \/ evaluate

\* ---------------------------------------------------------------------------
\* score_portfolio_stock on snapshots with no, one or several matching rows
\* ---------------------------------------------------------------------------

\* number of frames in `snapshots`
MaxMatchSnaps == 3

\* a listed symbol that begins with the held instrument's symbol
LongerSymbol == <<"U", "B", "A", "N">>

\* a frame read back from a file holding no records has no columns
has_columns(snap) == snap # <<>>

\* line 225: snap["Company"] raises KeyError on a frame without that column
KeyError == [error |-> "KeyError"]

\* score_portfolio_stock called on any list of stored frames: what it returns,
\* or the exception that leaves it
score_portfolio_stock_call(company, pct, snaps) ==
    IF Len(snaps) >= 2 /\ \E i \in 1..Len(snaps) : ~has_columns(snaps[i])
    THEN KeyError
    ELSE score_portfolio_stock(company, pct, snaps)

\* stored frames: without records; listing the held instrument, a symbol that
\* begins with its symbol, both, or neither
MatchFrames ==
    {<<>>,
     <<PortRow(<<"U", "B", "A">>, 100, -100)>>,
     <<PortRow(LongerSymbol, 50, 100)>>,
     <<PortRow(<<"U", "B", "A">>, 95, -200), PortRow(LongerSymbol, 50, 100)>>,
     <<PortRow(OtherSymbol, 50, 0)>>}

\* the calls made: `company` plain, with a leading space, and with a tab
\* between the symbol and an annotation
MatchCalls ==
    {<<<<"U", "B", "A">>, -100>>, <<<<" ", "U", "B", "A">>, -100>>,
     <<<<"U", "B", "A", "\t", "N">>, -100>>}

\* one more stored snapshot is part of the history handed to the call
add_listed_snapshot ==
    /\ pstate = "input"
    /\ Len(psnaps) < MaxMatchSnaps
    /\ \E snap \in MatchFrames : psnaps' = Append(psnaps, snap)
    /\ UNCHANGED <<pcompany, pcurrent, presult, pstate,
                   storeVars, recVars, labelVars, scoreVars, cycleVars, htmlVars>>

\* score_portfolio_stock(company, current_row, snapshots) is called and returns
\* or raises
evaluate_listed ==
    /\ pstate = "input"
    /\ \E call \in MatchCalls :
        /\ pcompany' = call[1]
        /\ pcurrent' = call[2]
        /\ presult' = score_portfolio_stock_call(call[1], call[2], psnaps)
    /\ pstate' = "done"
    /\ UNCHANGED <<psnaps, storeVars, recVars, labelVars, scoreVars, cycleVars, htmlVars>>

NextMatch == add_listed_snapshot \/ evaluate_listed

\* ---------------------------------------------------------------------------
\* agent.py: main and run_analysis
\* ---------------------------------------------------------------------------

\* run_analysis calls explored
MaxCycles == 3

\* --interval in minutes: its default (agent.py:90) and the shortest
default_interval == 60
Intervals == {1, default_interval}

\* the frame get_equities_data returns: 0 is the frame without rows
\* (scraper._to_dataframe returns pd.DataFrame() when no row was read)
EmptyFrame == 0

\* a check that lets every frame through
never_empty(df) == FALSE

\* df.empty (agent.py:52)
is_empty(df) == df = EmptyFrame

\* load_snapshots returning the oldest files of the directory
load_snapshots_oldest(dir, last_n) ==
    LET paths == SortedNames(dir)
        kept == SubSeq(paths, 1, Min(last_n, Len(paths)))
        good == SelectSeq(kept, LAMBDA t : readable(dir[t]))
    IN  [i \in 1..Len(good) |-> dir[good[i]]]

\* run_analysis, line 60
recent_snapshots(dir, last_n) == load_snapshots(dir, last_n)

\* _prune_old_snapshots run to its end by the only process using the directory
prune_old_snapshots(dir) ==
    LET names == SortedNames(dir)
        kept == SliceLast(names, keep_last)
    IN  [t \in {kept[i] : i \in 1..Len(kept)} |-> dir[t]]

\* what a write that raises OSError leaves: nothing (open() failed) or a file
\* that cannot be parsed (the write stopped part-way)
failed_write(dir, name) == {dir, to_json(dir, name, 0)}

\* a scheduler that starts a due job whether or not a cycle is running
run_pending_any_time(at) == at \in {"wait", "fetched", "saved", "loaded"}

\* main, lines 115-118: schedule.run_pending() is called by the loop itself,
\* between two sleeps, and runs a due job to its end before it returns
run_pending_reached(at) == at = "wait"

\* schedule: the job is due `every` minutes after it was scheduled or last ran
job_due(minutes, every) == minutes >= every

\* where run_analysis returns to: line 106 after the call of line 104, the
\* loop of lines 115-118 after a scheduled call
after_cycle(n) == IF n = 1 THEN "returned" ELSE "wait"

\* sizes of data/history when the agent starts
CycleSizes == InitSizes \cup {1}

\* the directory as an earlier run left it: k frames, the newest possibly from a
\* write that failed; the command line: --once, --interval
InitCycle ==
    /\ \E k \in CycleSizes, broken \in BOOLEAN :
        /\ persisted = k
        /\ files = [t \in 1..k |-> IF broken /\ t = k THEN 0 ELSE t]
        /\ clock = k + 1
    /\ saves = 0
    /\ ticks = 0
    /\ pc = [p \in Procs |-> "idle"]
    /\ globbed = [p \in Procs |-> <<>>]
    /\ loaded = <<>>
    /\ loadedN = -1
    /\ apc = "start"
    /\ adf = EmptyFrame
    /\ asnaps = <<>>
    /\ cycles = 0
    /\ reports = 0
    /\ once \in BOOLEAN
    /\ interval \in Intervals
    /\ waited = 0
    /\ inflight = 0

\* the agent's part of the state when the agent is not modelled
AgentIdle ==
    /\ apc = "start"
    /\ adf = EmptyFrame
    /\ asnaps = <<>>
    /\ cycles = 0
    /\ reports = 0
    /\ once = FALSE
    /\ interval = default_interval
    /\ waited = 0
    /\ inflight = 0

\* run_analysis is entered (main, line 104, or the scheduled job) and
\* get_equities_data() returns (line 51)
fetch ==
    /\ apc = "start"
    /\ cycles < MaxCycles
    /\ cycles' = cycles + 1
    /\ inflight' = inflight + 1
    /\ \E df \in {EmptyFrame, persisted + saves + 1} : adf' = df
    /\ apc' = "fetched"
    /\ UNCHANGED <<asnaps, reports, once, interval, waited,
                   storeVars, recVars, labelVars, scoreVars, portVars, htmlVars>>

\* run_analysis, lines 52-54: no data, the cycle is skipped
skip_cycle ==
    /\ apc = "fetched"
    /\ is_empty(adf)
    /\ apc' = after_cycle(cycles)
    /\ inflight' = inflight - 1
    /\ waited' = 0
    /\ UNCHANGED <<adf, asnaps, cycles, reports, once, interval,
                   storeVars, recVars, labelVars, scoreVars, portVars, htmlVars>>

\* run_analysis, line 57: save_snapshot(df) writes the file, prunes and returns
cycle_save ==
    /\ apc = "fetched"
    /\ ~is_empty(adf)
    /\ files' = prune_old_snapshots(to_json(files, clock, adf))
    /\ saves' = saves + 1
    /\ apc' = "saved"
    /\ UNCHANGED <<clock, persisted, ticks, pc, globbed, loaded, loadedN,
                   adf, asnaps, cycles, reports, once, interval, waited, inflight,
                   recVars, labelVars, scoreVars, portVars, htmlVars>>

\* run_analysis, line 57: df.to_json raises OSError (disk full, directory not
\* writable). Neither save_snapshot (lines 22-28) nor run_analysis (lines 46-75)
\* nor main (lines 104 and 115-121, which catch KeyboardInterrupt only) handles
\* it: the agent ends with a traceback
cycle_save_fails ==
    /\ apc = "fetched"
    /\ ~is_empty(adf)
    /\ files' \in failed_write(files, clock)
    /\ apc' = "dead"
    /\ inflight' = inflight - 1
    /\ UNCHANGED <<clock, persisted, saves, ticks, pc, globbed, loaded, loadedN,
                   adf, asnaps, cycles, reports, once, interval, waited,
                   recVars, labelVars, scoreVars, portVars, htmlVars>>

\* run_analysis, line 60: load_snapshots(last_n=24)
cycle_load ==
    /\ apc = "saved"
    /\ asnaps' = recent_snapshots(files, 24)
    /\ apc' = "loaded"
    /\ UNCHANGED <<adf, cycles, reports, once, interval, waited, inflight,
                   storeVars, recVars, labelVars, scoreVars, portVars, htmlVars>>

\* run_analysis, lines 63-75: gainers, losers, recommendations and the report;
\* the call returns
cycle_report ==
    /\ apc = "loaded"
    /\ reports' = reports + 1
    /\ apc' = after_cycle(cycles)
    /\ inflight' = inflight - 1
    /\ waited' = 0
    /\ UNCHANGED <<adf, asnaps, cycles, once, interval,
                   storeVars, recVars, labelVars, scoreVars, portVars, htmlVars>>

\* main, lines 106-108: --once, the process ends after the first run
exit_once ==
    /\ apc = "returned"
    /\ once
    /\ apc' = "exit"
    /\ UNCHANGED <<adf, asnaps, cycles, reports, once, interval, waited, inflight,
                   storeVars, recVars, labelVars, scoreVars, portVars, htmlVars>>

\* main, lines 111-116: the job is scheduled and the loop is entered
start_schedule ==
    /\ apc = "returned"
    /\ ~once
    /\ waited' = 0
    /\ apc' = "wait"
    /\ UNCHANGED <<adf, asnaps, cycles, reports, once, interval, inflight,
                   storeVars, recVars, labelVars, scoreVars, portVars, htmlVars>>

\* main, lines 116-117: the job is not due; a minute of sleeps passes
wait_minute ==
    /\ apc = "wait"
    /\ ~job_due(waited, interval)
    /\ waited' = waited + 1
    /\ clock' = clock + 60
    /\ UNCHANGED <<files, persisted, saves, ticks, pc, globbed, loaded, loadedN,
                   apc, adf, asnaps, cycles, reports, once, interval, inflight,
                   recVars, labelVars, scoreVars, portVars, htmlVars>>

\* main, line 116: schedule.run_pending() finds the job due and calls
\* run_analysis
next_cycle ==
    /\ run_pending_reached(apc)
    /\ job_due(waited, interval)
    /\ cycles < MaxCycles
    /\ apc' = "start"
    /\ UNCHANGED <<adf, asnaps, cycles, reports, once, interval, waited, inflight,
                   storeVars, recVars, labelVars, scoreVars, portVars, htmlVars>>

\* main, lines 119-121: Ctrl+C while the loop sleeps
interrupt ==
    /\ apc = "wait"
    /\ apc' = "stopped"
    /\ UNCHANGED <<adf, asnaps, cycles, reports, once, interval, waited, inflight,
                   storeVars, recVars, labelVars, scoreVars, portVars, htmlVars>>

NextCycle ==
    \/ fetch
    \/ skip_cycle
    \/ cycle_save
    \/ cycle_save_fails
    \/ cycle_load
    \/ cycle_report
    \/ exit_once
    \/ start_schedule
    \/ wait_minute
    \/ next_cycle
    \/ interrupt

\* ---------------------------------------------------------------------------
\* generate_html.py: main and generate
\* ---------------------------------------------------------------------------

\* number of frames data/history holds when the generator starts
MaxHtmlSnaps == 3

\* PORTFOLIO_STOCKS (generate_html.py:39-46), two of its four names
PORTFOLIO_STOCKS ==
    <<<<"A", "F", "R", "I", "P", "R", "U", "D">>, <<"C", "U", "T", "I", "X">>>>

\* frames get_equities_data returned, now or in an earlier run: none, one or two
\* of the held instruments listed
HtmlFrames ==
    {<<PortRow(OtherSymbol, 50, 0)>>,
     <<PortRow(PORTFOLIO_STOCKS[2], 3, 100)>>,
     <<PortRow(PORTFOLIO_STOCKS[2], 2, -100), PortRow(PORTFOLIO_STOCKS[1], 15, -400)>>}

\* str.strip(), of spaces
strip(str) ==
    LET kept == {i \in 1..Len(str) : str[i] # " "}
    IN  IF kept = {} THEN <<>>
        ELSE SubSeq(str, CHOOSE i \in kept : \A j \in kept : i <= j,
                    CHOOSE i \in kept : \A j \in kept : j <= i)

\* str.contains(sub)
contains(str, sub) ==
    \E i \in 1..(Len(str) - Len(sub) + 1) : SubSeq(str, i, i + Len(sub) - 1) = sub

\* find_portfolio_stocks, lines 58-60: the rows of df a name selects
portfolio_hits(df, name) ==
    SelectSeq(df, LAMBDA r : contains(upper(r.Company), upper(strip(name))))

\* find_portfolio_stocks: the first hit of every name that has one, in the
\* order of the names
RECURSIVE find_portfolio_stocks(_, _)
find_portfolio_stocks(df, names) ==
    IF names = <<>> THEN <<>>
    ELSE LET hits == portfolio_hits(df, Head(names))
         IN  (IF hits = <<>> THEN <<>> ELSE <<hits[1]>>)
                 \o find_portfolio_stocks(df, Tail(names))

\* the parameters of score_portfolio_stock (analyzer.py:209), none with a default
score_portfolio_stock_params == <<"company", "current_row", "snapshots">>

\* the keyword arguments of the call in generate (lines 779-780), after its
\* three positional arguments
generate_call_keywords == {"buy_price", "stop_loss_pct"}

\* Python binds a call: the positional arguments fill the first parameters, a
\* keyword must name one of the others, and every parameter must be bound;
\* otherwise the call raises TypeError
call_binds(params, npos, keywords) ==
    /\ npos <= Len(params)
    /\ keywords = {params[i] : i \in (npos + 1)..Len(params)}

TypeError == [error |-> "TypeError"]

\* a generated page that is not modelled
HtmlIdle ==
    /\ gpc = "start"
    /\ gdf = <<>>
    /\ gsnaps = <<>>
    /\ gsignals = <<>>
    /\ gnext = 1

\* an earlier run of the generator, the agent or the dashboard stored a frame
html_add_history ==
    /\ gpc = "start"
    /\ Len(gsnaps) < MaxHtmlSnaps
    /\ \E df \in HtmlFrames : gsnaps' = Append(gsnaps, df)
    /\ UNCHANGED <<gpc, gdf, gsignals, gnext,
                   storeVars, recVars, labelVars, scoreVars, portVars, cycleVars>>

\* main, lines 837 and 842, --cached: load_data returns the newest stored frame
\* (lines 78-82); snapshots = load_snapshots(last_n=168)
html_load_cached ==
    /\ gpc = "start"
    /\ gsnaps # <<>>
    /\ gdf' = gsnaps[Len(gsnaps)]
    /\ gpc' = "generate"
    /\ UNCHANGED <<gsnaps, gsignals, gnext,
                   storeVars, recVars, labelVars, scoreVars, portVars, cycleVars>>

\* main, lines 837-842: load_data fetches (lines 85-88); an empty frame aborts,
\* any other is saved and is then the newest of the snapshots loaded
html_load_live ==
    /\ gpc = "start"
    /\ \E df \in HtmlFrames \cup {<<>>} :
        /\ gdf' = df
        /\ gsnaps' = IF df = <<>> THEN gsnaps ELSE Append(gsnaps, df)
        /\ gpc' = IF df = <<>> THEN "aborted" ELSE "generate"
    /\ UNCHANGED <<gsignals, gnext,
                   storeVars, recVars, labelVars, scoreVars, portVars, cycleVars>>

\* generate, lines 774-782: one iteration of the loop over port_df. The call
\* passes three positional arguments and generate_call_keywords; a call that
\* does not bind raises TypeError, which neither generate nor main handles
html_signal ==
    /\ gpc = "generate"
    /\ gnext <= Len(find_portfolio_stocks(gdf, PORTFOLIO_STOCKS))
    /\ LET row == find_portfolio_stocks(gdf, PORTFOLIO_STOCKS)[gnext]
       IN  IF call_binds(score_portfolio_stock_params, 3, generate_call_keywords)
           THEN /\ gsignals' = [c \in DOMAIN gsignals \cup {row.Company} |->
                                   IF c = row.Company
                                   THEN score_portfolio_stock_call(
                                            row.Company, row.Pct_Change, gsnaps)
                                   ELSE gsignals[c]]
                /\ gnext' = gnext + 1
                /\ gpc' = gpc
           ELSE /\ gsignals' = gsignals
                /\ gnext' = gnext
                /\ gpc' = "error"
    /\ UNCHANGED <<gdf, gsnaps,
                   storeVars, recVars, labelVars, scoreVars, portVars, cycleVars>>

\* generate, lines 784-824: the loop has ended; the page is rendered and written
html_write ==
    /\ gpc = "generate"
    /\ gnext > Len(find_portfolio_stocks(gdf, PORTFOLIO_STOCKS))
    /\ gpc' = "written"
    /\ UNCHANGED <<gdf, gsnaps, gsignals, gnext,
                   storeVars, recVars, labelVars, scoreVars, portVars, cycleVars>>

NextHtml ==
    \/ html_add_history
    \/ html_load_cached
    \/ html_load_live
    \/ html_signal
    \/ html_write

\* ---------------------------------------------------------------------------
\* Specifications
\* ---------------------------------------------------------------------------

\* the parts of the state a specification does not use
OthersIdle == InitScore /\ InitPort /\ AgentIdle /\ HtmlIdle

Init == InitStore /\ InitRec /\ InitLabel /\ OthersIdle

Next == NextStore

Spec == Init /\ [][Next]_vars

InitRecommend == StoreIdle /\ InitRec /\ InitLabel /\ OthersIdle

InitScoreToLabel == StoreIdle /\ InitRec /\ InitLabel /\ OthersIdle

SpecLabel == InitScoreToLabel /\ [][NextLabel]_vars

SpecRec == InitRecommend /\ [][NextRec]_vars

InitScoreStock == StoreIdle /\ InitRec /\ InitLabel /\ OthersIdle

SpecScore == InitScoreStock /\ [][NextScore]_vars

InitPortfolio == StoreIdle /\ InitRec /\ InitLabel /\ OthersIdle

SpecPort == InitPortfolio /\ [][NextPort]_vars

InitMatching == StoreIdle /\ InitRec /\ InitLabel /\ OthersIdle

SpecMatch == InitMatching /\ [][NextMatch]_vars

InitAgent == InitCycle /\ InitRec /\ InitLabel /\ InitScore /\ InitPort /\ HtmlIdle

SpecCycle == InitAgent /\ [][NextCycle]_vars

InitGenerator == StoreIdle /\ InitRec /\ InitLabel /\ InitScore /\ InitPort /\ AgentIdle /\ HtmlIdle

SpecHtml == InitGenerator /\ [][NextHtml]_vars

\* ---------------------------------------------------------------------------
\* generate_recommendations: claims
\* ---------------------------------------------------------------------------

Returned == {recs[i].Company : i \in DOMAIN recs}

\* the current rows the single-session policy accepts
LiveGainers ==
    {c \in DOMAIN current_df :
        current_df[c].Pct_Change > 0 /\ current_df[c].Volume > 0}

\* number of snapshots that list the company
NumObs(c) == Cardinality({i \in DOMAIN snapshots : c \in DOMAIN snapshots[i]})

\* the company's trend score over `snapshots`, in hundredths
ScoreOf(c) == score_stock(build_price_history(snapshots)[c]).score

\* the companies the multi-signal policy ranks
Qualifying == {c \in Companies : NumObs(c) >= 2 /\ ScoreOf(c) > 0}

\* C5: with 0 or 1 snapshots every returned row is a current row with
\* Pct_Change > 0 and Volume > 0 and carries the single-session label.
C5_FewSnapshotsSingleSessionOnly ==
    (rstate = "done" /\ Len(snapshots) <= 1) =>
        \A i \in DOMAIN recs :
            /\ recs[i].Recommendation = SingleSessionLabel
            /\ recs[i].Company \in LiveGainers

C5_Witness ==
    /\ rstate = "done"
    /\ Len(snapshots) = 1
    /\ recs # <<>>
    /\ \E c \in DOMAIN current_df :
        current_df[c].Pct_Change > 0 /\ current_df[c].Volume = 0

\* C6 (as claimed): the returned rows are strictly descending by score and at
\* most top_n.
C6_StrictlyDescending ==
    rstate = "done" =>
        /\ Len(recs) <= top_n
        /\ \A i \in 1..(Len(recs) - 1) : recs[i].Score > recs[i + 1].Score

\* C6 (amended): the returned rows are in descending order of score, rows of
\* equal score adjacent in either order, and at most top_n.
C6_Descending ==
    rstate = "done" =>
        /\ Len(recs) <= top_n
        /\ \A i \in 1..(Len(recs) - 1) : recs[i].Score >= recs[i + 1].Score

C6_Witness ==
    /\ rstate = "done"
    /\ Len(snapshots) >= 2
    /\ Len(recs) = 2
    /\ recs[1].Score > recs[2].Score
    /\ recs[1].Recommendation # SingleSessionLabel

\* C7: every returned symbol is listed in the current frame.
C7_ReturnedSymbolsAreLive ==
    rstate = "done" => \A i \in DOMAIN recs : recs[i].Company \in DOMAIN current_df

\* C8: whenever the single-session fallback would return rows (top_n >= 1 and
\* some current row has Pct_Change > 0 and Volume > 0) the returned list is not
\* empty.
C8_NeverEmptyWhenFallbackHasRows ==
    (rstate = "done" /\ top_n >= 1 /\ LiveGainers # {}) => recs # <<>>

C8_Witness ==
    /\ rstate = "done"
    /\ Len(snapshots) >= 2
    /\ \E c \in Companies : NumObs(c) >= 2 /\ ScoreOf(c) <= 0
    /\ Qualifying = {}
    /\ recs # <<>>

\* C9: on the multi-signal path (>= 2 snapshots, some symbol scoring above 0)
\* every returned symbol has >= 2 observations and a score > 0, and the returned
\* symbols are the top_n highest-scoring ones.
C9_MultiSignalTopN ==
    (rstate = "done" /\ Len(snapshots) >= 2 /\ Qualifying # {}) =>
        /\ \A i \in DOMAIN recs :
            /\ NumObs(recs[i].Company) >= 2
            /\ recs[i].Score > 0
            /\ recs[i].Score = ScoreOf(recs[i].Company)
        /\ \A i, j \in DOMAIN recs : i # j => recs[i].Company # recs[j].Company
        /\ Len(recs) = Min(top_n, Cardinality(Qualifying))
        /\ \A c \in Qualifying \ Returned :
            \A i \in DOMAIN recs : ScoreOf(c) <= recs[i].Score

C9_Witness ==
    /\ rstate = "done"
    /\ top_n = 1
    /\ Cardinality(Qualifying) = 2
    /\ Len(recs) = 1
    /\ \E c \in Qualifying \ Returned : ScoreOf(c) < recs[1].Score

\* ---------------------------------------------------------------------------
\* _score_to_label: claims
\* ---------------------------------------------------------------------------

\* strength of a label
Rank(label) ==
    CASE label = "HOLD" -> 0
      [] label = "WATCH" -> 1
      [] label = "BUY" -> 2
      [] label = "STRONG BUY" -> 3

\* C10: score >= 30 gives STRONG BUY, 15 <= score < 30 BUY, 5 <= score < 15
\* WATCH, score < 5 HOLD (so 30, 15 and 5 map to the stronger label), and a
\* higher score never gets a weaker label.
C10_LabelThresholds ==
    /\ [](llabel # "" =>
            /\ llabel = "STRONG BUY" <=> lscore >= 3000
            /\ llabel = "BUY" <=> (1500 <= lscore /\ lscore < 3000)
            /\ llabel = "WATCH" <=> (500 <= lscore /\ lscore < 1500)
            /\ llabel = "HOLD" <=> lscore < 500)
    /\ [][(llabel # "" /\ lscore <= lscore') => Rank(llabel) <= Rank(llabel')]_vars

C10_Witness == lscore = 3000 /\ llabel = "STRONG BUY"

\* ---------------------------------------------------------------------------
\* build_price_history + score_stock: claims
\* ---------------------------------------------------------------------------

\* the tracked symbol's quotes in the snapshots that list it, oldest first
Obs ==
    LET listing == SelectSeq(hsnaps, LAMBDA snap : Tracked \in DOMAIN snap)
    IN  [i \in 1..Len(listing) |-> listing[i][Tracked]]

ObsCloses == [i \in 1..Len(Obs) |-> Obs[i].Close]
ObsVols == [i \in 1..Len(Obs) |-> Obs[i].Volume]
ObsPcts == [i \in 1..Len(Obs) |-> Obs[i].Pct_Change]

\* C11: a history with fewer than 2 close observations scores 0 with an empty
\* breakdown, whatever volumes and period changes it holds.
C11_FewClosesScoreZero ==
    (hstate = "done" /\ Len(ObsCloses) < 2) =>
        /\ hresult.score = 0
        /\ DOMAIN hresult.signals = {}

C11_Witness ==
    /\ hstate = "done"
    /\ Len(hsnaps) >= 2
    /\ Len(Obs) = 1
    /\ Obs[1].Pct_Change > 0
    /\ Obs[1].Volume > 0

\* the last 3 period changes exist and are all strictly negative
LastThreeNegative ==
    /\ Len(ObsPcts) >= 3
    /\ ObsPcts[Len(ObsPcts)] < 0
    /\ ObsPcts[Len(ObsPcts) - 1] < 0
    /\ ObsPcts[Len(ObsPcts) - 2] < 0

\* C12: with >= 2 closes, the score is 15 lower than the sum of the other four
\* contributions, and consecutive_declines = 3 is recorded, if and only if there
\* are at least 3 period changes and the last 3 are all strictly negative;
\* otherwise nothing is subtracted and consecutive_declines is absent.
C12_DeclinePenaltyIff ==
    (hstate = "done" /\ Len(ObsCloses) >= 2) =>
        LET others == RAdd(RAdd(RAdd(momentum_score(ObsCloses),
                                     consistency_score(ObsPcts)),
                                volume_score(ObsCloses, ObsVols)),
                           recent_momentum_score(ObsCloses))
        IN  /\ "consecutive_declines" \in DOMAIN hresult.signals <=> LastThreeNegative
            /\ LastThreeNegative =>
                /\ hresult.signals["consecutive_declines"] = 3
                /\ hresult.score = round2(RSub(others, Rat(15, 1)))
            /\ ~LastThreeNegative => hresult.score = round2(others)

C12_Witness ==
    /\ hstate = "done"
    /\ Len(ObsCloses) >= 3
    /\ LastThreeNegative
    /\ hresult.signals["consecutive_declines"] = 3

\* (closes[last] - closes[0]) / closes[0] * 100, and 0 when closes[0] = 0
ExpectedNetChange ==
    IF ObsCloses[1] = 0 THEN Rat(0, 1)
    ELSE Rat((ObsCloses[Len(ObsCloses)] - ObsCloses[1]) * 100, ObsCloses[1])

\* C13: with >= 2 closes, the momentum figure is (closes[last] - closes[0]) /
\* closes[0] * 100 and adds 0.4 times itself to the score when closes[0] # 0; it
\* is 0 and adds 0 when closes[0] = 0.
C13_MomentumContribution ==
    (hstate = "done" /\ Len(ObsCloses) >= 2) =>
        LET others == RAdd(RAdd(RAdd(consistency_score(ObsPcts),
                                     volume_score(ObsCloses, ObsVols)),
                                recent_momentum_score(ObsCloses)),
                           decline_score(ObsPcts))
        IN  /\ hresult.signals["momentum_%"] = round2(ExpectedNetChange)
            /\ hresult.score =
                  round2(RAdd(RMul(ExpectedNetChange, Rat(4, 10)), others))
            /\ ObsCloses[1] = 0 =>
                /\ hresult.signals["momentum_%"] = 0
                /\ hresult.score = round2(others)

C13_Witness ==
    /\ hstate = "done"
    /\ Len(ObsCloses) >= 2
    /\ ObsCloses[1] = 0
    /\ ObsCloses[Len(ObsCloses)] > 0

\* C18: the closes score_stock derives for a symbol are the closes of the
\* snapshots that list it, one per such snapshot, oldest first; a snapshot that
\* does not list the symbol adds no entry.
C18_ClosesFollowSnapshots ==
    hstate = "done" =>
        /\ hcloses = ObsCloses
        /\ Len(hcloses) = Cardinality({i \in DOMAIN hsnaps : Tracked \in DOMAIN hsnaps[i]})

C18_Witness ==
    /\ hstate = "done"
    /\ Len(hsnaps) = 3
    /\ Tracked \in DOMAIN hsnaps[1]
    /\ Tracked \notin DOMAIN hsnaps[2] /\ DOMAIN hsnaps[2] # {}
    /\ Tracked \in DOMAIN hsnaps[3]
    /\ hcloses = <<hsnaps[1][Tracked].Close, hsnaps[3][Tracked].Close>>
    /\ hcloses[1] # hcloses[2]

\* the five contributions, each from the observations alone
MomentumPart == RMul(ExpectedNetChange, Rat(4, 10))

ConsistencyPart ==
    IF Len(ObsPcts) = 0 THEN Rat(0, 1)
    ELSE Rat(20 * Cardinality({i \in 1..Len(ObsPcts) : ObsPcts[i] > 0}), Len(ObsPcts))

VolumeRising == ObsVols[Len(ObsVols)] > ObsVols[1]

VolumePart ==
    IF Len(ObsVols) < 2 \/ ObsVols[1] = 0 THEN Rat(0, 1)
    ELSE IF RSign(ExpectedNetChange) > 0 /\ VolumeRising THEN Rat(10, 1)
    ELSE IF RSign(ExpectedNetChange) < 0 /\ VolumeRising THEN Rat(-5, 1)
    ELSE Rat(0, 1)

EarlierSum == SeqSum(SubSeq(ObsCloses, 1, Len(ObsCloses) - 3))

RecentSum == SeqSum(SubSeq(ObsCloses, Len(ObsCloses) - 2, Len(ObsCloses)))

\* 0.3 * (recentAvg - earlierAvg) / earlierAvg * 100
RecentPart ==
    IF Len(ObsCloses) < 4 \/ EarlierSum = 0 THEN Rat(0, 1)
    ELSE LET n == Len(ObsCloses) - 3
         IN  Rat(30 * (RecentSum * n - 3 * EarlierSum), 3 * EarlierSum)

StreakPart == IF LastThreeNegative THEN Rat(-15, 1) ELSE Rat(0, 1)

\* C24: with >= 2 closes the score is the sum of the five contributions, each
\* computed from the observations alone; a signal whose data precondition fails
\* (no period changes; fewer than 2 volumes or vols[0] = 0; fewer than 4 closes
\* or earlierAvg = 0; fewer than 3 period changes) adds 0, leaves no figure in
\* the breakdown and does not keep the other signals from contributing.
C24_ScoreIsSumOfIndependentSignals ==
    (hstate = "done" /\ Len(ObsCloses) >= 2) =>
        /\ hresult.score =
              round2(RAdd(RAdd(RAdd(RAdd(MomentumPart, ConsistencyPart), VolumePart),
                               RecentPart),
                          StreakPart))
        /\ "momentum_%" \in DOMAIN hresult.signals
        /\ "consistency" \in DOMAIN hresult.signals <=> Len(ObsPcts) > 0
        /\ "volume_trend_%" \in DOMAIN hresult.signals
              <=> (Len(ObsVols) >= 2 /\ ObsVols[1] # 0)
        /\ "recent_momentum_%" \in DOMAIN hresult.signals
              <=> (Len(ObsCloses) >= 4 /\ EarlierSum # 0)
        /\ Len(ObsPcts) < 3 => "consecutive_declines" \notin DOMAIN hresult.signals

\* volume and recent momentum cannot be computed; the streak still counts
C24_Witness ==
    /\ hstate = "done"
    /\ Len(ObsCloses) = 4
    /\ ObsCloses[1] = 0 /\ ObsVols[1] = 0
    /\ "volume_trend_%" \notin DOMAIN hresult.signals
    /\ "recent_momentum_%" \notin DOMAIN hresult.signals
    /\ "consecutive_declines" \in DOMAIN hresult.signals
    /\ hresult.score = -1500

\* ---------------------------------------------------------------------------
\* score_portfolio_stock: claims
\* ---------------------------------------------------------------------------

\* the period changes and closes of matched rows, oldest first
PctsOf(rows) == [i \in 1..Len(rows) |-> rows[i].Pct_Change]
ClosesOf(rows) == [i \in 1..Len(rows) |-> rows[i].Close]

\* those matched for the held instrument
PPcts == PctsOf(matched_rows(psnaps, pcompany))
PCloses == ClosesOf(matched_rows(psnaps, pcompany))

\* net change first to last close, in percent
NetOf(closes) ==
    IF closes[1] = 0 THEN Rat(0, 1)
    ELSE Rat((closes[Len(closes)] - closes[1]) * 100, closes[1])

\* mean of the last 3 period changes (all when fewer), in percent
RecentAvgOf(pcts) ==
    LET n == Len(pcts)
        from == IF n >= 3 THEN n - 2 ELSE 1
    IN  Rat(SeqSum([i \in 1..(n - from + 1) |-> pcts[from + i - 1]]),
            100 * (n - from + 1))

\* length of the longest suffix of the period changes that is all strictly
\* negative
TrailingDown(pcts) ==
    LET n == Len(pcts)
    IN  CHOOSE k \in 0..n :
            /\ \A i \in (n - k + 1)..n : pcts[i] < 0
            /\ k < n => pcts[n - k] >= 0

\* the table of section 4.5, first match wins
TableSignal(net, avg, down) ==
    IF RLe(net, Rat(-10, 1)) /\ down >= 5 THEN "SELL"
    ELSE IF RLe(net, Rat(-5, 1)) /\ RLt(avg, Rat(-1, 1)) THEN "CONSIDER SELLING"
    ELSE IF down >= 5 THEN "CONSIDER SELLING"
    ELSE IF RLt(net, Rat(-2, 1)) /\ RLt(avg, Rat(0, 1)) THEN "WATCH CLOSELY"
    ELSE IF RLt(Rat(5, 1), net) /\ RLt(Rat(0, 1), avg) THEN "KEEP"
    ELSE "HOLD"

\* the table applied to matched rows
RowsTableSignal(rows) ==
    TableSignal(NetOf(ClosesOf(rows)), RecentAvgOf(PctsOf(rows)),
                TrailingDown(PctsOf(rows)))

\* with >= 2 matched rows the signal returned is that of the table
TableSignalReturned(rows) ==
    Len(rows) >= 2 => presult.signal = RowsTableSignal(rows)

\* C14: with >= 2 matched observations the signal is that of the first row of
\* the table whose condition holds: SELL, CONSIDER SELLING (two rows), WATCH
\* CLOSELY, KEEP, otherwise HOLD.
C14_FirstMatchingRow ==
    (pstate = "done" /\ Len(psnaps) >= 2) =>
        TableSignalReturned(matched_rows(psnaps, pcompany))

\* the third row of the table applies and the fourth would
StreakBeforeWatch(closes, pcts) ==
    /\ Len(closes) >= 2
    /\ TrailingDown(pcts) >= 5
    /\ RLt(NetOf(closes), Rat(-2, 1)) /\ RLt(RecentAvgOf(pcts), Rat(0, 1))
    /\ ~RLe(NetOf(closes), Rat(-10, 1))
    /\ ~RLt(RecentAvgOf(pcts), Rat(-1, 1))

C14_Witness ==
    /\ pstate = "done"
    /\ presult.signal = "CONSIDER SELLING"
    /\ StreakBeforeWatch(PCloses, PPcts)

\* C15 (as claimed): for every matched period-change sequence consec_down is the
\* length of its longest all-negative suffix.
C15_TrailingRunOfEverySequence ==
    (pstate = "done" /\ Len(psnaps) >= 2) =>
        presult.consec_down = TrailingDown(PPcts)

\* consec_down is the trailing run of the period changes
TrailingRunReturned(closes, pcts) ==
    /\ presult.consec_down = TrailingDown(pcts)
    /\ pcts[Len(pcts)] >= 0 => presult.consec_down = 0
    /\ (pcts = <<-100, -100, -100, -100, -100, -100>>
            /\ NetOf(closes) = Rat(-12, 1)) =>
          (presult.consec_down = 6 /\ presult.signal = "SELL")

\* the same of matched rows, 0 when there are fewer than 2
ConsecDownReturned(rows) ==
    IF Len(rows) >= 2 THEN TrailingRunReturned(ClosesOf(rows), PctsOf(rows))
    ELSE presult.consec_down = 0

\* C15 (amended): with >= 2 matched observations consec_down is the length of
\* the longest all-negative suffix of the matched period changes (0 when the
\* newest is not negative), and with fewer than 2 matched observations it is 0;
\* six changes of -1 percent with a net change of -12 percent give
\* consec_down = 6 and SELL.
C15_ConsecutiveDownIsTrailingRun ==
    (pstate = "done" /\ Len(psnaps) >= 2) =>
        ConsecDownReturned(matched_rows(psnaps, pcompany))

C15_Witness ==
    /\ pstate = "done"
    /\ PPcts = <<-100, -100, -100, -100, -100, -100>>
    /\ NetOf(PCloses) = Rat(-12, 1)
    /\ presult.consec_down = 6
    /\ presult.signal = "SELL"

\* C16 (as claimed): with fewer than 2 snapshots the signal is WATCH CLOSELY when
\* the current Pct_Change is below -3 and HOLD otherwise, the reason is the
\* insufficient-history message, and every statistic of the result equals the
\* current Pct_Change.
C16_AllStatisticsEqualCurrent ==
    (pstate = "done" /\ Len(psnaps) < 2) =>
        /\ presult.signal = (IF pcurrent < -300 THEN "WATCH CLOSELY" ELSE "HOLD")
        /\ presult.reason = InsufficientHistory
        /\ presult.net_change_pct = pcurrent
        /\ presult.recent_avg_pct = pcurrent
        /\ presult.consec_down = pcurrent
        /\ presult.sessions = pcurrent
        /\ presult.week_change_pct = pcurrent
        /\ presult.three_day_change_pct = pcurrent

\* C16 (amended): with fewer than 2 snapshots the signal is WATCH CLOSELY when
\* the current Pct_Change is below -3 and HOLD otherwise (HOLD at exactly -3),
\* the reason is the insufficient-history message, the net, recent-average, week
\* and three-day changes equal the current Pct_Change, consec_down is 1 when
\* the current Pct_Change is negative and 0 otherwise, and sessions is 1.
C16_SingleSnapshotSignal ==
    (pstate = "done" /\ Len(psnaps) < 2) =>
        /\ presult.signal = (IF pcurrent < -300 THEN "WATCH CLOSELY" ELSE "HOLD")
        /\ presult.reason = InsufficientHistory
        /\ presult.net_change_pct = pcurrent
        /\ presult.recent_avg_pct = pcurrent
        /\ presult.week_change_pct = pcurrent
        /\ presult.three_day_change_pct = pcurrent
        /\ presult.consec_down = (IF pcurrent < 0 THEN 1 ELSE 0)
        /\ presult.sessions = 1

C16_Witness ==
    /\ pstate = "done"
    /\ Len(psnaps) = 1
    /\ pcurrent = -300
    /\ presult.signal = "HOLD"
    /\ presult.consec_down = 1

\* C17: with >= 2 snapshots of which fewer than 2 list the held instrument, the
\* result is HOLD with the not-enough-data reason and every statistic 0,
\* whatever the current quote.
C17_NotEnoughDataAllZero ==
    (pstate = "done" /\ Len(psnaps) >= 2 /\ Len(PPcts) < 2) =>
        /\ presult.signal = "HOLD"
        /\ presult.reason = NotEnoughData
        /\ presult.net_change_pct = 0
        /\ presult.recent_avg_pct = 0
        /\ presult.consec_down = 0
        /\ presult.sessions = 0
        /\ presult.week_change_pct = 0
        /\ presult.three_day_change_pct = 0

C17_Witness ==
    /\ pstate = "done"
    /\ Len(psnaps) >= 2
    /\ PPcts = <<-100>>
    /\ pcurrent = -301
    /\ presult.signal = "HOLD"

\* C26: with >= 2 matched observations and a run of 5 or more consecutive
\* declines the signal is SELL or CONSIDER SELLING, never WATCH CLOSELY, HOLD or
\* KEEP, whatever the net change and the recent average are.
C26_LongStreakSellsOrConsiders ==
    (pstate = "done" /\ Len(psnaps) >= 2
        /\ presult.sessions >= 2 /\ presult.consec_down >= 5) =>
        presult.signal \in {"SELL", "CONSIDER SELLING"}

\* a run of 6 declines on a price that rose by more than 5 percent
C26_Witness ==
    /\ pstate = "done"
    /\ Len(psnaps) >= 2
    /\ presult.sessions = 6
    /\ presult.consec_down = 6
    /\ presult.net_change_pct > 500
    /\ presult.signal = "CONSIDER SELLING"

\* ---------------------------------------------------------------------------
\* agent cycle: claims
\* ---------------------------------------------------------------------------

\* C19: a cycle whose extraction returned no rows is skipped: the step after the
\* empty fetch ends the cycle with the directory as it was (nothing written,
\* nothing pruned), no snapshots loaded and no report computed.
C19_EmptyFetchSkipsCycle ==
    [][(apc = "fetched" /\ adf = EmptyFrame) =>
            /\ apc' \in {"returned", "wait"}
            /\ files' = files
            /\ saves' = saves
            /\ asnaps' = asnaps
            /\ reports' = reports]_vars

C19_Witness ==
    /\ apc = "wait"
    /\ adf = EmptyFrame
    /\ cycles = 2
    /\ reports = 1
    /\ saves = 1

\* C20: an I/O failure while a snapshot is read or written does not end the
\* agent: the snapshot is skipped and the cycle goes on.
C20_IoFailureNotFatal == apc # "dead"

\* ---------------------------------------------------------------------------
\* snapshot store: concurrent saves
\* ---------------------------------------------------------------------------

\* every save_snapshot call that was started has ended, returned or raised
SavesEnded == \A p \in Procs : pc[p] \in {"idle", "failed"}

\* C29: when processes sharing data/history run save_snapshot concurrently, every
\* interleaving of their write and prune steps ends with the calls completing
\* without error and with at most 720 snapshots stored.
C29_ConcurrentSavesComplete ==
    /\ \A p \in Procs : pc[p] # "failed"
    /\ SavesEnded => Cardinality(DOMAIN files) <= keep_last

\* ---------------------------------------------------------------------------
\* agent scheduling: claims
\* ---------------------------------------------------------------------------

\* C22: at most one analysis cycle of the agent is in flight at any time: a
\* cycle starts only when no run_analysis call is in progress, and the
\* directory is written only by the one cycle in flight.
C22_OneCycleInFlight ==
    [][/\ inflight' <= 1
       /\ cycles' = cycles + 1 => inflight = 0
       /\ files' # files => (inflight = 1 /\ inflight' <= 1)]_vars

\* a scheduled cycle has saved its snapshot after the first cycle reported
C22_Witness ==
    /\ apc = "saved"
    /\ cycles = 2
    /\ reports = 1
    /\ inflight = 1
    /\ waited = interval

\* C23: the agent runs one analysis cycle at start-up before anything else;
\* with --once it ends after exactly that cycle and never waits for another;
\* without --once it goes on running cycles and ends only when the user
\* interrupts it.
C23_RunsUntilInterrupted ==
    /\ apc \in {"returned", "wait", "exit", "stopped"} => cycles >= 1
    /\ once => (cycles <= 1 /\ apc \notin {"wait", "stopped"})
    /\ apc = "exit" => (once /\ cycles = 1)
    /\ ~once => apc \notin {"exit", "dead"}

\* the stored files that can be read
ReadableNames == {t \in DOMAIN files : readable(files[t])}

C21_MissingDataNeverRaises ==
    pstate = "done" => "signal" \in DOMAIN presult

Whitespace == {" ", "\t"}

\* the first whitespace-delimited token of a name
WsToken(str) ==
    LET inked == {i \in 1..Len(str) : str[i] \notin Whitespace}
        first == CHOOSE i \in inked : \A j \in inked : i <= j
        blanks == {i \in first..Len(str) : str[i] \in Whitespace}
    IN  IF inked = {} THEN <<>>
        ELSE IF blanks = {} THEN SubSeq(str, first, Len(str))
        ELSE SubSeq(str, first, (CHOOSE i \in blanks : \A j \in blanks : i <= j) - 1)

\* the snapshots with a row whose symbol starts with that token of the name
SnapshotsListing(name) ==
    {i \in 1..Len(psnaps) :
        \E k \in 1..Len(psnaps[i]) :
            startswith(upper(psnaps[i][k].Company), WsToken(upper(name)))}

\* C25: a snapshot row matches the held instrument iff its symbol, compared
\* case-insensitively, starts with the first whitespace-delimited token of the
\* name, for every name; each snapshot with a matching row contributes one
\* observation.
C25_PrefixOfFirstToken ==
    (pstate = "done" /\ Len(psnaps) >= 2 /\ "signal" \in DOMAIN presult) =>
        presult.sessions =
            (IF Cardinality(SnapshotsListing(pcompany)) >= 2
             THEN Cardinality(SnapshotsListing(pcompany)) ELSE 0)

\* the symbols of the rows the call takes its closes and period changes from
SeriesSymbols ==
    {matched_rows(psnaps, pcompany)[i].Company :
        i \in 1..Len(matched_rows(psnaps, pcompany))}

\* C27: all observations used for one held instrument belong to one listed
\* symbol, also when snapshots list several symbols that start with the token.
C27_OneSymbolPerSeries ==
    (pstate = "done" /\ Len(psnaps) >= 2 /\ "signal" \in DOMAIN presult
        /\ \A i \in 1..Len(pcompany) : pcompany[i] \notin Whitespace) =>
        Cardinality(SeriesSymbols) <= 1

\* ---------------------------------------------------------------------------
\* page generation: claims
\* ---------------------------------------------------------------------------

\* C30: for every held instrument found in the current quotes the call of the
\* position evaluator completes without error and its signal is recorded under
\* the instrument's symbol; generation reaches the point where the page is
\* written.
C30_EvaluatorCallCompletes ==
    /\ gpc # "error"
    /\ gpc = "written" =>
          DOMAIN gsignals =
              {find_portfolio_stocks(gdf, PORTFOLIO_STOCKS)[i].Company :
                  i \in 1..Len(find_portfolio_stocks(gdf, PORTFOLIO_STOCKS))}

====
